---- MODULE Spec2Model ----
(***************************************************************************)
(* A model of rustbox: the single-session guard (mod running, RustBox     *)
(* init and Drop), the event translator (unpack_event), the style codec   *)
(* (mod style, print/print_char) and the key derivations (keyboard.rs).   *)
(***************************************************************************)
EXTENDS Integers, Sequences, FiniteSets

\* ------------------------------------------------------------------ bounds
\* Number of threads that may call into the library concurrently.
NumThreads == 2

Threads == 1..NumThreads

\* ------------------------------------------------------- program constants
\* enum InputMode (rustbox.rs 33-42), as the c_int handed to the driver.
InputModeCurrent == 0
InputModeEsc == 1
InputModeAlt == 2
InputModes == {InputModeCurrent, InputModeEsc, InputModeAlt}

\* Return codes the driver's tb_init can hand back: success, the three
\* documented failures, and two codes the wrapper does not know.
TbInitResults == {0, -1, -2, -3, -4, 1}

VARIABLES
    RUSTBOX_RUNNING,  \* static AtomicBool of mod running
    pc,               \* per thread: where it stands in init / session / drop
    guards,           \* threads owning a RunningGuard value
    driver,           \* state of the external terminal driver
    frame,            \* per thread: locals of the call in progress
    called,           \* per thread: driver primitives invoked since its latest init began
    nshutdown,        \* per thread: tb_shutdown calls made for its latest session
    ret,              \* per thread: value returned by its latest completed call
    args,             \* per thread: arguments of that call
    cells             \* tb_change_cell calls issued by the latest print / print_char

vars == <<RUSTBOX_RUNNING, pc, guards, driver, frame, called, nshutdown, ret, args, cells>>

NoArgs == [fn |-> "none"]
NoFrame == [input_mode |-> InputModeCurrent, res |-> 0]
Unit == [tag |-> "Unit"]
Panicked == [tag |-> "Panic"]
InitOk == [tag |-> "Ok"]
InitErr(e) == [tag |-> "Err", err |-> e]

\* ------------------------------------------------------------ mod running
\* A load followed by a store instead of one atomic exchange: a racing caller
\* is handed the value from before the other caller's store.
swap_not_atomic(old, new) == [stored |-> new, returned |-> FALSE]

\* AtomicBool::swap(true, SeqCst): the value stored and the value returned.
swap(old, new) == [stored |-> new, returned |-> old]

\* run() building the guard before the test, so that the failing path drops
\* it and clears the flag of the session that is open.
run_drops_guard_on_failure(flag) ==
    [flag |-> ~flag, guard |-> ~flag]

\* running::run(): Some(RunningGuard) iff the swap found the flag clear.
run(flag) ==
    LET s == swap(flag, TRUE)
    IN  [flag |-> s.stored, guard |-> ~s.returned]

\* InitError::from_termbox_error
from_termbox_error(res) ==
    CASE res = -1 -> InitErr("UnsupportedTerminal")
      [] res = -2 -> InitErr("FailedToOpenTty")
      [] res = -3 -> InitErr("PipeTrapError")
      [] OTHER    -> Panicked

Init ==
    /\ RUSTBOX_RUNNING = FALSE
    /\ pc = [t \in Threads |-> "idle"]
    /\ guards = {}
    /\ driver = "closed"
    /\ frame = [t \in Threads |-> NoFrame]
    /\ called = [t \in Threads |-> {}]
    /\ nshutdown = [t \in Threads |-> 0]
    /\ ret = [t \in Threads |-> Unit]
    /\ args = [t \in Threads |-> NoArgs]
    /\ cells = <<>>

\* pub fn running(): one atomic load.
Running(t) ==
    /\ pc[t] \in {"idle", "live"}
    /\ ret' = [ret EXCEPT ![t] = [tag |-> "Bool", v |-> RUSTBOX_RUNNING]]
    /\ args' = [args EXCEPT ![t] = [fn |-> "running"]]
    /\ UNCHANGED <<RUSTBOX_RUNNING, pc, guards, driver, frame, called, nshutdown, cells>>

\* RustBox::init, lines 229-232: acquire the guard or return AlreadyOpen.
InitAcquire(t) ==
    /\ pc[t] = "idle"
    /\ \E mode \in InputModes :
        LET r == run(RUSTBOX_RUNNING)
        IN  /\ RUSTBOX_RUNNING' = r.flag
            /\ called' = [called EXCEPT ![t] = {}]
            /\ args' = [args EXCEPT ![t] = [fn |-> "init", input_mode |-> mode]]
            /\ nshutdown' = [nshutdown EXCEPT ![t] = 0]
            /\ IF r.guard
               THEN /\ guards' = guards \cup {t}
                    /\ pc' = [pc EXCEPT ![t] = "tb_init"]
                    /\ frame' = [frame EXCEPT ![t] = [input_mode |-> mode, res |-> 0]]
                    /\ UNCHANGED ret
               ELSE /\ ret' = [ret EXCEPT ![t] = InitErr("AlreadyOpen")]
                    /\ UNCHANGED <<guards, pc, frame>>
    /\ UNCHANGED <<driver, cells>>

\* RustBox::init, line 235: the driver's init primitive returns res.
InitTbInit(t) ==
    /\ pc[t] = "tb_init"
    /\ \E res \in TbInitResults :
        /\ called' = [called EXCEPT ![t] = @ \cup {"tb_init"}]
        /\ frame' = [frame EXCEPT ![t].res = res]
        /\ IF res = 0
           THEN /\ driver' = "ready"
                /\ pc' = [pc EXCEPT ![t] = "init_ok"]
           ELSE /\ driver' = driver
                /\ pc' = [pc EXCEPT ![t] = "init_err"]
    /\ UNCHANGED <<RUSTBOX_RUNNING, guards, nshutdown, ret, args, cells>>

\* impl Drop for RunningGuard: store(false).
DropRunningGuard(t) ==
    /\ RUSTBOX_RUNNING' = FALSE
    /\ guards' = guards \ {t}

\* The error path leaking the guard (a manual release forgotten on one exit).
InitFail_leaks_guard(t) ==
    /\ pc[t] = "init_err"
    /\ ret' = [ret EXCEPT ![t] = from_termbox_error(frame[t].res)]
    /\ pc' = [pc EXCEPT ![t] = "idle"]
    /\ frame' = [frame EXCEPT ![t] = NoFrame]
    /\ UNCHANGED <<RUSTBOX_RUNNING, guards, driver, called, nshutdown, args, cells>>

\* RustBox::init, lines 239-241: map the failure code (or panic); leaving the
\* function, by return or by unwinding, drops the local `running`.
InitFail(t) ==
    /\ pc[t] = "init_err"
    /\ ret' = [ret EXCEPT ![t] = from_termbox_error(frame[t].res)]
    /\ DropRunningGuard(t)
    /\ pc' = [pc EXCEPT ![t] = "idle"]
    /\ frame' = [frame EXCEPT ![t] = NoFrame]
    /\ UNCHANGED <<driver, called, nshutdown, args, cells>>

\* RustBox::init, lines 243-247: apply the input mode unless Current, return Ok(rb).
InitFinish(t) ==
    /\ pc[t] = "init_ok"
    /\ called' = [called EXCEPT ![t] =
                    IF frame[t].input_mode = InputModeCurrent
                    THEN @ ELSE @ \cup {"tb_select_input_mode"}]
    /\ ret' = [ret EXCEPT ![t] = InitOk]
    /\ pc' = [pc EXCEPT ![t] = "live"]
    /\ frame' = [frame EXCEPT ![t] = NoFrame]
    /\ UNCHANGED <<RUSTBOX_RUNNING, guards, driver, nshutdown, args, cells>>

\* The guard declared (and so dropped) ahead of the driver teardown.
DropShutdownCall_after_release(t) ==
    /\ pc[t] \in {"live", "unwinding"}
    /\ DropRunningGuard(t)
    /\ driver' = "tearing_down"
    /\ called' = [called EXCEPT ![t] = @ \cup {"tb_shutdown"}]
    /\ nshutdown' = [nshutdown EXCEPT ![t] = @ + 1]
    /\ pc' = [pc EXCEPT ![t] = "in_shutdown"]
    /\ ret' = [ret EXCEPT ![t] = IF pc[t] = "unwinding" THEN @ ELSE Unit]
    /\ args' = [args EXCEPT ![t] = IF pc[t] = "unwinding" THEN @ ELSE [fn |-> "drop"]]
    /\ cells' = <<>>
    /\ UNCHANGED frame

\* impl Drop for RustBox: tb_shutdown() is entered ...
DropShutdownCall(t) ==
    /\ pc[t] \in {"live", "unwinding"}
    /\ driver' = "tearing_down"
    /\ called' = [called EXCEPT ![t] = @ \cup {"tb_shutdown"}]
    /\ nshutdown' = [nshutdown EXCEPT ![t] = @ + 1]
    /\ pc' = [pc EXCEPT ![t] = "in_shutdown"]
    /\ ret' = [ret EXCEPT ![t] = IF pc[t] = "unwinding" THEN @ ELSE Unit]
    /\ args' = [args EXCEPT ![t] = IF pc[t] = "unwinding" THEN @ ELSE [fn |-> "drop"]]
    /\ cells' = <<>>
    /\ UNCHANGED <<RUSTBOX_RUNNING, guards, frame>>

\* ... and returns; RustBox::drop is over.
DropShutdownReturn(t) ==
    /\ pc[t] = "in_shutdown"
    /\ driver' = "closed"
    /\ pc' = [pc EXCEPT ![t] = "drop_fields"]
    /\ UNCHANGED <<RUSTBOX_RUNNING, guards, frame, called, nshutdown, ret, args, cells>>

\* The fields of RustBox are dropped after RustBox::drop: _running releases the flag.
DropFields(t) ==
    /\ pc[t] = "drop_fields"
    /\ DropRunningGuard(t)
    /\ pc' = [pc EXCEPT ![t] = "idle"]
    /\ UNCHANGED <<driver, frame, called, nshutdown, ret, args, cells>>

\* --------------------------------------------------------- event translator
\* const NIL_RAW_EVENT (the fields the wrapper reads: emod, key, ch, w, h).
NIL_RAW_EVENT == [emod |-> 0, key |-> 0, ch |-> 0, w |-> 0, h |-> 0]

\* Records the driver may write: modifier bytes, 16-bit key codes, 32-bit
\* character codes around the edges of the Unicode scalar range, a size.
RawEvents ==
    [emod : {0, 1, 2},
     key  : {0, 13},
     ch   : {65, 55295, 55296, 57343, 57344, 1114111, 1114112},
     w    : {80},
     h    : {24}]

\* Status codes the driver's poll / peek primitives may return.
EventStatus == {-2, -1, 0, 1, 2, 3}

None == [tag |-> "None"]
Some(v) == [tag |-> "Some", v |-> v]
KeyChar(c) == [tag |-> "Char", c |-> c]
KeyKey(code) == [tag |-> "Key", code |-> code]

NoEvent == [tag |-> "NoEvent"]
KeyEventRaw(emod, key, ch) == [tag |-> "KeyEventRaw", emod |-> emod, key |-> key, ch |-> ch]
KeyEvent(k) == [tag |-> "KeyEvent", key |-> k]
ResizeEvent(w, h) == [tag |-> "ResizeEvent", w |-> w, h |-> h]
Ok(v) == [tag |-> "Ok", v |-> v]
OsError == [tag |-> "Err", err |-> "last_os_error"]

\* std::char::from_u32: Some(c) iff i is a Unicode scalar value.
char_from_u32(i) ==
    IF i > 1114111 \/ (i >= 55296 /\ i <= 57343) THEN None ELSE Some(i)

\* Key::from_code: wraps a driver key code as a coded key.
from_code(a) == Some(KeyKey(a))

\* The character decoded with unwrap() instead of map(): an invalid scalar aborts.
unpack_event_unwrap(ev_type, ev, raw) ==
    CASE ev_type = 0 -> Ok(NoEvent)
      [] ev_type = 1 ->
            IF raw
            THEN Ok(KeyEventRaw(ev.emod, ev.key, ev.ch))
            ELSE IF ev.key = 0
                 THEN LET c == char_from_u32(ev.ch)
                      IN  IF c = None THEN Panicked ELSE Ok(KeyEvent(Some(KeyChar(c.v))))
                 ELSE Ok(KeyEvent(from_code(ev.key)))
      [] ev_type = 2 -> Ok(ResizeEvent(ev.w, ev.h))
      [] ev_type = -1 -> OsError
      [] OTHER -> Panicked

\* fn unpack_event(ev_type, ev, raw)
unpack_event(ev_type, ev, raw) ==
    CASE ev_type = 0 -> Ok(NoEvent)
      [] ev_type = 1 ->
            Ok(IF raw
               THEN KeyEventRaw(ev.emod, ev.key, ev.ch)
               ELSE LET k == IF ev.key = 0
                             THEN LET c == char_from_u32(ev.ch)
                                  IN  IF c = None THEN None ELSE Some(KeyChar(c.v))
                             ELSE from_code(ev.key)
                    IN  KeyEvent(k))
      [] ev_type = 2 -> Ok(ResizeEvent(ev.w, ev.h))
      [] ev_type = -1 -> OsError
      [] OTHER -> Panicked

\* Body shared by poll_event and peek_event: `ev` is an immutable local whose
\* address is handed to the driver as *const; the driver writes through it.
\* The record unpack_event then reads is the one written or, the write being
\* outside what the compiler must honour, the initial NIL_RAW_EVENT.
DriverEvent(t, primitive) ==
    /\ pc[t] = "live"
    /\ \E rc \in EventStatus, written \in RawEvents, raw \in BOOLEAN :
        \E ev \in {written, NIL_RAW_EVENT} :
            LET r == unpack_event(rc, ev, raw)
            IN  /\ ret' = [ret EXCEPT ![t] = r]
                /\ args' = [args EXCEPT ![t] =
                              [fn |-> "unpack_event", ev_type |-> rc, ev |-> ev, raw |-> raw]]
                /\ pc' = [pc EXCEPT ![t] = IF r = Panicked THEN "unwinding" ELSE "live"]
    /\ called' = [called EXCEPT ![t] = @ \cup {primitive}]
    /\ UNCHANGED <<RUSTBOX_RUNNING, guards, driver, frame, nshutdown, cells>>

\* RustBox::poll_event
PollEvent(t) == DriverEvent(t, "tb_poll_event")

\* RustBox::peek_event
PeekEvent(t) == DriverEvent(t, "tb_peek_event")

\* -------------------------------------------------------------- style codec
\* Bitwise and / or of two unsigned words.
RECURSIVE BitAnd(_, _)
BitAnd(a, b) ==
    IF a = 0 \/ b = 0 THEN 0
    ELSE (a % 2) * (b % 2) + 2 * BitAnd(a \div 2, b \div 2)

RECURSIVE BitOr(_, _)
BitOr(a, b) ==
    IF a = 0 THEN b
    ELSE IF b = 0 THEN a
    ELSE (IF a % 2 = 1 \/ b % 2 = 1 THEN 1 ELSE 0) + 2 * BitOr(a \div 2, b \div 2)

\* enum Color, repr u16: Default = 0x00 ... White = 0x08.
Colors == 0..8

\* bitflags Style: u16
TB_NORMAL_COLOR == 15
RB_BOLD == 256
RB_UNDERLINE == 512
RB_REVERSE == 1024
RB_NORMAL == 0
TB_ATTRIB == BitOr(BitOr(RB_BOLD, RB_UNDERLINE), RB_REVERSE)

\* Style::from_color: color as u16 & TB_NORMAL_COLOR.bits
from_color(color) == BitAnd(color, TB_NORMAL_COLOR)

\* The attribute mask left out: the caller's style word is or-ed in whole.
fg_style_unmasked(sty, fg) == BitOr(from_color(fg), sty)

\* The foreground and background words print and print_char hand to change_cell.
fg_style(sty, fg) == BitOr(from_color(fg), BitAnd(sty, TB_ATTRIB))
bg_style(bg) == from_color(bg)

\* Style values a caller can pass: every set of attribute flags, alone or with
\* the colour bits of the same word set as well.
AttributeSets == SUBSET {RB_BOLD, RB_UNDERLINE, RB_REVERSE}
RECURSIVE Union(_)
Union(flags) ==
    IF flags = {} THEN RB_NORMAL
    ELSE LET f == CHOOSE f \in flags : TRUE IN BitOr(f, Union(flags \ {f}))
Styles == {BitOr(Union(A), low) : A \in AttributeSets, low \in {RB_NORMAL, TB_NORMAL_COLOR}}

BackgroundColors == {0, 8}
Strings == {<<>>, <<65, 66>>}
CellXs == {1}
CellYs == {3}

\* RustBox::print: one change_cell per character, at x + i.
RustBoxPrint(t) ==
    /\ pc[t] = "live"
    /\ \E sty \in Styles, fg \in Colors, bg \in BackgroundColors, s \in Strings,
          x \in CellXs, y \in CellYs :
        /\ cells' = [i \in 1..Len(s) |->
                        [x |-> x + (i - 1), y |-> y, ch |-> s[i],
                         fg |-> fg_style(sty, fg), bg |-> bg_style(bg)]]
        /\ args' = [args EXCEPT ![t] =
                      [fn |-> "print", sty |-> sty, fg |-> fg, bg |-> bg, s |-> s]]
        /\ called' = [called EXCEPT ![t] = IF s = <<>> THEN @ ELSE @ \cup {"tb_change_cell"}]
    /\ ret' = [ret EXCEPT ![t] = Unit]
    /\ UNCHANGED <<RUSTBOX_RUNNING, pc, guards, driver, frame, nshutdown>>

\* RustBox::print_char: a single change_cell at (x, y).
RustBoxPrintChar(t) ==
    /\ pc[t] = "live"
    /\ \E sty \in Styles, fg \in Colors, bg \in BackgroundColors, ch \in {65},
          x \in CellXs, y \in CellYs :
        /\ cells' = << [x |-> x, y |-> y, ch |-> ch,
                        fg |-> fg_style(sty, fg), bg |-> bg_style(bg)] >>
        /\ args' = [args EXCEPT ![t] =
                      [fn |-> "print_char", sty |-> sty, fg |-> fg, bg |-> bg, s |-> <<ch>>]]
    /\ called' = [called EXCEPT ![t] = @ \cup {"tb_change_cell"}]
    /\ ret' = [ret EXCEPT ![t] = Unit]
    /\ UNCHANGED <<RUSTBOX_RUNNING, pc, guards, driver, frame, nshutdown>>

\* ---------------------------------------------------------------- key model
\* Largest character code tried in full; a few larger ones are added below.
MaxChar == 383
Chars == (0..MaxChar) \cup {1114111}

\* Largest function-key number tried in full; a few larger u32 values are added.
MaxNum == 14
Nums == (0..MaxNum) \cup {65537, 65548, 2147483647}

AsU16(n) == n % 65536
Sub16(a, b) == (a - b) % 65536

\* The upper-case arm left out.
control_lower_only(ch) ==
    IF ch > 255 THEN None
    ELSE CASE ch \in {50, 126} -> Some(KeyKey(0))
           [] ch >= 97 /\ ch <= 122 -> Some(KeyKey(Sub16(AsU16(ch), AsU16(97)) + 1))
           [] ch \in {51, 91} -> Some(KeyKey(27))
           [] ch \in {52, 92} -> Some(KeyKey(28))
           [] ch \in {53, 93} -> Some(KeyKey(29))
           [] ch = 54 -> Some(KeyKey(30))
           [] ch \in {55, 47, 95} -> Some(KeyKey(31))
           [] ch = 56 -> Some(KeyKey(127))
           [] OTHER -> None

\* Key::control
control(ch) ==
    IF ch > 255 THEN None
    ELSE CASE ch \in {50, 126} -> Some(KeyKey(0))
           [] ch >= 97 /\ ch <= 122 -> Some(KeyKey(Sub16(AsU16(ch), AsU16(97)) + 1))
           [] ch >= 65 /\ ch <= 90 -> Some(KeyKey(Sub16(AsU16(ch), AsU16(65)) + 1))
           [] ch \in {51, 91} -> Some(KeyKey(27))
           [] ch \in {52, 92} -> Some(KeyKey(28))
           [] ch \in {53, 93} -> Some(KeyKey(29))
           [] ch = 54 -> Some(KeyKey(30))
           [] ch \in {55, 47, 95} -> Some(KeyKey(31))
           [] ch = 56 -> Some(KeyKey(127))
           [] OTHER -> None

\* The range test made on the truncated number.
funcion_truncated_guard(num) ==
    IF 1 <= AsU16(num) /\ AsU16(num) <= 12
    THEN Some(KeyKey(Sub16(Sub16(65535, AsU16(num)), 1)))
    ELSE None

\* The formula counting from F1 = 0xFFFF, as the constants table does.
funcion_from_table(num) ==
    IF 1 <= num /\ num <= 12
    THEN Some(KeyKey(Sub16(65535, Sub16(AsU16(num), 1))))
    ELSE None

\* Key::funcion
funcion(num) ==
    IF 1 <= num /\ num <= 12
    THEN Some(KeyKey(Sub16(Sub16(65535, AsU16(num)), 1)))
    ELSE None

\* mod key: the named constants F1..F12, INSERT, DELETE and CTRL_TILDE.
F_KEYS == << 65535 - 0, 65535 - 1, 65535 - 2, 65535 - 3, 65535 - 4, 65535 - 5,
             65535 - 6, 65535 - 7, 65535 - 8, 65535 - 9, 65535 - 10, 65535 - 11 >>
INSERT == 65535 - 12
DELETE == 65535 - 13
CTRL_TILDE == 0

\* A call of Key::control(ch); the function is free of the session.
Control(t) ==
    /\ pc[t] \in {"idle", "live"}
    /\ \E ch \in Chars :
        /\ ret' = [ret EXCEPT ![t] = control(ch)]
        /\ args' = [args EXCEPT ![t] = [fn |-> "control", ch |-> ch]]
    /\ UNCHANGED <<RUSTBOX_RUNNING, pc, guards, driver, frame, called, nshutdown, cells>>

\* A call of Key::funcion(num).
Funcion(t) ==
    /\ pc[t] \in {"idle", "live"}
    /\ \E num \in Nums :
        /\ ret' = [ret EXCEPT ![t] = funcion(num)]
        /\ args' = [args EXCEPT ![t] = [fn |-> "funcion", num |-> num]]
    /\ UNCHANGED <<RUSTBOX_RUNNING, pc, guards, driver, frame, called, nshutdown, cells>>

Next ==
    \E t \in Threads :
        \/ Running(t)
        \/ InitAcquire(t)
        \/ InitTbInit(t)
        \/ InitFail(t)
        \/ InitFinish(t)
        \/ DropShutdownCall(t)
        \/ DropShutdownReturn(t)
        \/ DropFields(t)

Spec == Init /\ [][Next]_vars

\* A single-threaded client (examples/hello-world.rs): one thread opens the
\* session, uses it and drops it.
MainThread == CHOOSE t \in Threads : \A u \in Threads : t <= u

SessionStep(t) ==
    \/ InitAcquire(t)
    \/ InitTbInit(t)
    \/ InitFail(t)
    \/ InitFinish(t)
    \/ DropShutdownCall(t)
    \/ DropShutdownReturn(t)
    \/ DropFields(t)

NextEvent ==
    \/ SessionStep(MainThread)
    \/ PollEvent(MainThread)
    \/ PeekEvent(MainThread)

SpecEvent == Init /\ [][NextEvent]_vars

NextStyle ==
    \/ SessionStep(MainThread)
    \/ RustBoxPrint(MainThread)
    \/ RustBoxPrintChar(MainThread)

SpecStyle == Init /\ [][NextStyle]_vars

NextKey ==
    \/ Control(MainThread)
    \/ Funcion(MainThread)

SpecKey == Init /\ [][NextKey]_vars

\* ===================================================================== claims
\* Threads that own a session or are building or tearing one down.
InSession(t) == pc[t] \in {"init_ok", "live", "unwinding", "in_shutdown", "drop_fields"}

\* C1: under every interleaving of init and drop, at most one thread holds the
\* running guard and at most one session exists; a holder implies the flag is set.
C1_AtMostOneSession ==
    /\ Cardinality(guards) <= 1
    /\ Cardinality({t \in Threads : InSession(t)}) <= 1
    /\ \A t \in Threads : InSession(t) => t \in guards
    /\ guards # {} => RUSTBOX_RUNNING

\* Two init calls raced: one owns the live session, the other was told AlreadyOpen.
C1_Witness ==
    \E t, u \in Threads :
        /\ t # u
        /\ pc[t] = "live" /\ guards = {t}
        /\ pc[u] = "idle" /\ args[u].fn = "init" /\ ret[u] = InitErr("AlreadyOpen")

\* A step in which thread t, idle, performs an init call while the flag is set.
InitOnSetFlag(t) ==
    /\ pc[t] = "idle"
    /\ RUSTBOX_RUNNING
    /\ args'[t].fn = "init"
    /\ <<ret[t], args[t], called[t], pc[t]>> # <<ret'[t], args'[t], called'[t], pc'[t]>>

\* C2: an init call that finds the flag set returns AlreadyOpen, makes no driver
\* call, leaves the flag set and disturbs neither the driver nor the owner.
C2_AlreadyOpenTouchesNothing ==
    [][\A t \in Threads :
          InitOnSetFlag(t) =>
              /\ ret'[t] = InitErr("AlreadyOpen")
              /\ pc'[t] = "idle"
              /\ called'[t] = {}
              /\ RUSTBOX_RUNNING'
              /\ driver' = driver
              /\ guards' = guards
              /\ \A u \in Threads \ {t} : pc'[u] = pc[u] /\ called'[u] = called[u]]_vars

\* An init was refused while another thread's session is open and undisturbed.
C2_Witness ==
    \E t, u \in Threads :
        /\ t # u
        /\ ret[t] = InitErr("AlreadyOpen") /\ called[t] = {}
        /\ pc[u] = "live" /\ driver = "ready" /\ RUSTBOX_RUNNING

\* C3: the flag is never clear while the driver is initialised or being torn
\* down, and a dropped session has called the driver's shutdown exactly once,
\* before the flag was cleared.
C3_ShutdownBeforeRelease ==
    /\ ~RUSTBOX_RUNNING => driver = "closed"
    /\ \A t \in Threads :
        /\ nshutdown[t] <= 1
        /\ pc[t] \in {"init_ok", "live"} => nshutdown[t] = 0
        /\ pc[t] \in {"in_shutdown", "drop_fields"} => nshutdown[t] = 1 /\ RUSTBOX_RUNNING
        /\ (pc[t] = "idle" /\ args[t].fn = "drop") =>
              nshutdown[t] = 1 /\ "tb_shutdown" \in called[t]

\* A session was dropped: shutdown ran once, the driver is closed, the flag clear.
C3_Witness ==
    \E t \in Threads :
        /\ pc[t] = "idle" /\ args[t].fn = "drop"
        /\ nshutdown[t] = 1
        /\ driver = "closed" /\ ~RUSTBOX_RUNNING

\* The outcome the wrapper documents for a failing tb_init code.
InitFailureOutcome(res) ==
    IF res = -1 THEN InitErr("UnsupportedTerminal")
    ELSE IF res = -2 THEN InitErr("FailedToOpenTty")
    ELSE IF res = -3 THEN InitErr("PipeTrapError")
    ELSE Panicked

\* C4: when tb_init fails after the guard was acquired, init reports -1, -2, -3
\* as UnsupportedTerminal, FailedToOpenTty, PipeTrapError (anything else
\* aborts), creates no session, and leaves the flag clear on that exit.
C4_InitFailureReleasesGuard ==
    [][\A t \in Threads :
          /\ (pc[t] = "tb_init" /\ pc'[t] = "init_ok") => frame'[t].res = 0
          /\ (pc[t] = "tb_init" /\ pc'[t] = "init_err") =>
                frame'[t].res # 0 /\ driver' = "closed"
          /\ (pc[t] = "init_err" /\ pc'[t] # "init_err") =>
                /\ ret'[t] = InitFailureOutcome(frame[t].res)
                /\ pc'[t] = "idle"
                /\ ~RUSTBOX_RUNNING'
                /\ guards' = {}
                /\ driver' = "closed"]_vars

\* A thread whose init failed on the tty has since acquired the guard again.
C4_Witness ==
    \E t \in Threads :
        /\ ret[t] = InitErr("FailedToOpenTty")
        /\ pc[t] = "tb_init" /\ t \in guards

\* The modifier an Event value carries: KeyEvent(Option<Key>) has no field for one.
EventModifier(e) == "none"

\* C5: in translated mode a key record carries its modifier into the event:
\* 0 gives no modifier, 1 gives Alt, any other value aborts translation.
C5_ModifierCarried ==
    \A t \in Threads :
        (args[t].fn = "unpack_event" /\ args[t].ev_type = 1 /\ ~args[t].raw) =>
            IF args[t].ev.emod = 0
            THEN ret[t].tag = "Ok" /\ EventModifier(ret[t].v) = "none"
            ELSE IF args[t].ev.emod = 1
            THEN ret[t].tag = "Ok" /\ EventModifier(ret[t].v) = "Alt"
            ELSE ret[t] = Panicked

\* The outcome claimed for translated-mode unpacking of (status, record).
TranslatedOutcome(status, ev) ==
    IF status = 0 THEN Ok(NoEvent)
    ELSE IF status = 1 /\ ev.key = 0
    THEN IF (ev.ch >= 0 /\ ev.ch <= 55295) \/ (ev.ch >= 57344 /\ ev.ch <= 1114111)
         THEN Ok(KeyEvent(Some(KeyChar(ev.ch))))
         ELSE Ok(KeyEvent(None))
    ELSE IF status = 1 THEN Ok(KeyEvent(Some(KeyKey(ev.key))))
    ELSE IF status = 2 THEN Ok(ResizeEvent(ev.w, ev.h))
    ELSE IF status = -1 THEN OsError
    ELSE Panicked

\* C6: translated-mode unpacking yields NoEvent for status 0, a character key
\* (or no key, for an invalid scalar) for status 1 with key 0, the coded key for
\* status 1 otherwise, ResizeEvent(w, h) for status 2, an OS error for -1 and
\* an abort for any other status.
C6_TranslatedUnpacking ==
    \A t \in Threads :
        (args[t].fn = "unpack_event" /\ ~args[t].raw) =>
            ret[t] = TranslatedOutcome(args[t].ev_type, args[t].ev)

\* A key record whose character code is a surrogate became a key event with no key.
C6_Witness ==
    \E t \in Threads :
        /\ args[t].fn = "unpack_event" /\ ~args[t].raw
        /\ args[t].ev_type = 1 /\ args[t].ev.key = 0 /\ args[t].ev.ch = 55296
        /\ ret[t] = Ok(KeyEvent(None))

\* The attribute flags set in a style word, read off its bit positions.
AttributesOf(word) == {f \in {256, 512, 1024} : (word \div f) % 2 = 1}

\* C7: the foreground word print / print_char hand to the driver holds the
\* colour in its low four bits and exactly the caller's attribute flags above
\* them, whichever colour is combined; the two fields do not overlap.
C7_StyleLossless ==
    \A t \in Threads :
        args[t].fn \in {"print", "print_char"} =>
            /\ Len(cells) = Len(args[t].s)
            /\ \A i \in 1..Len(cells) :
                /\ cells[i].fg % 16 = args[t].fg
                /\ AttributesOf(cells[i].fg) = AttributesOf(args[t].sty)
                /\ cells[i].fg \div 16 = (args[t].sty \div 256) * 16

\* White with Bold and Reverse, from a style word whose colour bits were set too.
C7_Witness ==
    \E t \in Threads :
        /\ args[t].fn = "print" /\ args[t].fg = 8
        /\ args[t].sty = 256 + 1024 + 15
        /\ Len(cells) = 2 /\ cells[2].fg = 8 + 256 + 1024

\* The control code claimed for a character, or -1 where none is claimed.
ControlCode(ch) ==
    IF ch >= 97 /\ ch <= 122 THEN ch - 96
    ELSE IF ch >= 65 /\ ch <= 90 THEN (ch + 32) - 96
    ELSE IF ch \in {50, 126} THEN CTRL_TILDE
    ELSE IF ch \in {51, 91} THEN 27
    ELSE IF ch \in {52, 92} THEN 28
    ELSE IF ch \in {53, 93} THEN 29
    ELSE IF ch = 54 THEN 30
    ELSE IF ch \in {55, 47, 95} THEN 31
    ELSE IF ch = 56 THEN 127
    ELSE -1

\* C8: control(ch) maps letters case-insensitively to alphabet position + 1,
\* follows the alias table for '2'..'8' and the punctuation, and yields none
\* for every other character, all characters above 0xFF included.
C8_ControlTable ==
    \A t \in Threads :
        args[t].fn = "control" =>
            IF ControlCode(args[t].ch) = -1
            THEN ret[t] = None
            ELSE ret[t] = Some(KeyKey(ControlCode(args[t].ch)))

\* control('Z') gave code 26.
C8_Witness ==
    \E t \in Threads :
        args[t].fn = "control" /\ args[t].ch = 90 /\ ret[t] = Some(KeyKey(26))

\* C9: funcion(n) is defined iff 1 <= n <= 12, and then is the coded key
\* 0xFFFF - n - 1, a value of 16 bits reached without wrap-around.
C9_FuncionRange ==
    \A t \in Threads :
        args[t].fn = "funcion" =>
            IF 1 <= args[t].num /\ args[t].num <= 12
            THEN /\ ret[t] = Some(KeyKey(65535 - args[t].num - 1))
                 /\ 65535 - args[t].num - 1 \in 0..65535
            ELSE ret[t] = None

\* funcion(1) gave 0xFFFD.
C9_Witness ==
    \E t \in Threads :
        args[t].fn = "funcion" /\ args[t].num = 1 /\ ret[t] = Some(KeyKey(65533))

\* The named constants of the high range, in table order, from F1 on.
NamedSlots == F_KEYS \o <<INSERT, DELETE>>

\* C10 as stated: for n in 1..12 the derived key is code(F<n>) - 1, the slot of
\* the next named constant after F<n>.
C10_ShiftedByOneSlot ==
    \A t \in Threads :
        (args[t].fn = "funcion" /\ args[t].num \in 1..12) =>
            /\ ret[t] = Some(KeyKey(F_KEYS[args[t].num] - 1))
            /\ ret[t] = Some(KeyKey(NamedSlots[args[t].num + 1]))

\* C10 amended: for n in 1..12 the derived key is code(F<n>) - 2, the slot of
\* the second named constant after F<n> (F<n+2>, INSERT for 11, DELETE for 12).
C10_ShiftedByTwoSlots ==
    \A t \in Threads :
        (args[t].fn = "funcion" /\ args[t].num \in 1..12) =>
            /\ ret[t] = Some(KeyKey(F_KEYS[args[t].num] - 2))
            /\ ret[t] = Some(KeyKey(NamedSlots[args[t].num + 2]))

\* funcion(12) gave the code of DELETE.
C10_Witness ==
    \E t \in Threads :
        args[t].fn = "funcion" /\ args[t].num = 12 /\ ret[t] = Some(KeyKey(DELETE))

====
